---- MODULE Spec2Model ----
(***************************************************************************)
(* A model of app.py: the query handlers of the study index (term search,  *)
(* term count, term intersection, term and location dissociation), the     *)
(* lazily created database engine, and the annotation store the handlers   *)
(* query.  Text is modelled character by character (a string is a sequence *)
(* of one-character strings), so that LIKE / ILIKE patterns, underscore    *)
(* replacement and coordinate parsing are computed as the code and the     *)
(* database compute them.                                                  *)
(***************************************************************************)
EXTENDS Integers, Sequences, FiniteSets, TLC

\* ------------------------------------------------------------------ bounds

\* Study identifiers are 1..NumStudies.
NumStudies == 2

\* A generated annotation table holds at most MaxRows rows.
MaxRows == 2

\* Request threads of the concurrent specifications.
NumThreads == 2

\* The LIMIT of search_term's query.
Limit == 10

Studies == 1..NumStudies

Threads == 1..NumThreads

\* ------------------------------------------------------------------- text

Digits == {"0", "1", "2", "3", "4", "5", "6", "7", "8", "9"}

\* str.lower() / the case folding of ILIKE, per character.
LowerChar(c) ==
    CASE c = "A" -> "a"
      [] c = "B" -> "b"
      [] OTHER -> c

LowerSeq(s) == [i \in 1..Len(s) |-> LowerChar(s[i])]

\* str.replace("_", " ")
ReplaceUnderscores(s) == [i \in 1..Len(s) |-> IF s[i] = "_" THEN " " ELSE s[i]]

\* f"%{term}%"
Pattern(term) == <<"%">> \o term \o <<"%">>

\* PostgreSQL's LIKE: % matches any run of characters, _ any one character,
\* every other character itself (the escape character \ is outside the
\* modelled alphabet).
RECURSIVE Like(_, _)
Like(s, p) ==
    IF p = <<>> THEN s = <<>>
    ELSE IF Head(p) = "%"
         THEN Like(s, Tail(p)) \/ (s # <<>> /\ Like(Tail(s), p))
         ELSE /\ s # <<>>
              /\ (Head(p) = "_" \/ Head(p) = Head(s))
              /\ Like(Tail(s), Tail(p))

\* PostgreSQL's ILIKE: LIKE after case folding of both sides.
ILike(s, p) == Like(LowerSeq(s), LowerSeq(p))

\* ------------------------------------------------------------- row orders

\* A rank of the characters, for the orders in which rows come back.
CharRank(c) ==
    CASE c = " " -> 1
      [] c = "%" -> 2
      [] c = "_" -> 3
      [] c = "A" -> 4
      [] c = "B" -> 5
      [] c = "a" -> 6
      [] c = "b" -> 7
      [] OTHER -> 8

RECURSIVE TermKey(_)
TermKey(t) == IF t = <<>> THEN 0 ELSE TermKey(SubSeq(t, 1, Len(t) - 1)) * 9 + CharRank(t[Len(t)])

RECURSIVE AscendingTerms(_)
AscendingTerms(M) ==
    IF M = {} THEN <<>>
    ELSE LET m == CHOOSE t \in M : \A u \in M : TermKey(t) <= TermKey(u)
         IN  <<m>> \o AscendingTerms(M \ {m})

RECURSIVE AscendingIds(_)
AscendingIds(S) ==
    IF S = {} THEN <<>>
    ELSE LET m == CHOOSE s \in S : \A u \in S : s <= u
         IN  <<m>> \o AscendingIds(S \ {m})

Reverse(q) == [i \in 1..Len(q) |-> q[Len(q) + 1 - i]]

Range(q) == {q[i] : i \in 1..Len(q)}

\* Neither query has an ORDER BY and neither list(set) has an order of its own:
\* the rows come back in the order of the scan the planner picks, and a Python
\* set lists its members in the order of its hash table.  Two of those orders
\* are modelled.
ScanOrders == {"forward", "backward"}

InOrder(q, order) == IF order = "forward" THEN q ELSE Reverse(q)

\* ------------------------------------------------- coordinate literals

Min(a, b) == IF a <= b THEN a ELSE b

IndexOfUnderscore(s) == Min(Len(s) + 1, CHOOSE i \in 1..(Len(s) + 1) :
                            /\ (i <= Len(s) => s[i] = "_")
                            /\ \A j \in 1..(i - 1) : s[j] # "_")

\* coords.split("_"): the parts between the underscores; a string without one
\* is its own single part, the empty string included.
RECURSIVE Split(_)
Split(s) ==
    LET i == IndexOfUnderscore(s)
    IN  IF i > Len(s) THEN <<s>>
        ELSE <<SubSeq(s, 1, i - 1)>> \o Split(SubSeq(s, i + 1, Len(s)))

\* int() strips the blanks around its argument.
RECURSIVE Strip(_)
Strip(s) ==
    IF s = <<>> THEN s
    ELSE IF Head(s) = " " THEN Strip(Tail(s))
    ELSE IF s[Len(s)] = " " THEN Strip(SubSeq(s, 1, Len(s) - 1))
    ELSE s

DigitValue(c) ==
    CASE c = "0" -> 0 [] c = "1" -> 1 [] c = "2" -> 2 [] c = "3" -> 3 [] c = "4" -> 4
      [] c = "5" -> 5 [] c = "6" -> 6 [] c = "7" -> 7 [] c = "8" -> 8 [] c = "9" -> 9

RECURSIVE DigitsValue(_)
DigitsValue(d) ==
    IF d = <<>> THEN 0
    ELSE DigitsValue(SubSeq(d, 1, Len(d) - 1)) * 10 + DigitValue(d[Len(d)])

\* int(part): blanks stripped, an optional sign, then one or more decimal
\* digits; anything else raises ValueError.
PyInt(part) ==
    LET t      == Strip(part)
        signed == t # <<>> /\ Head(t) \in {"+", "-"}
        d      == IF signed THEN Tail(t) ELSE t
        ok     == d # <<>> /\ \A i \in 1..Len(d) : d[i] \in Digits
        v      == IF ok THEN DigitsValue(d) ELSE 0
    IN  [ok |-> ok, value |-> IF signed /\ Head(t) = "-" THEN 0 - v ELSE v]

\* The slip of taking the first three parts and ignoring the rest.
ParseCoords_FirstThree(coords) ==
    LET parts == Split(coords)
        ints  == [i \in 1..Len(parts) |-> PyInt(parts[i])]
    IN  IF Len(parts) >= 3 /\ \A i \in 1..3 : ints[i].ok
        THEN [ok |-> TRUE, xyz |-> <<ints[1].value, ints[2].value, ints[3].value>>]
        ELSE [ok |-> FALSE, xyz |-> <<0, 0, 0>>]

\* x, y, z = map(int, coords.split("_")): raises ValueError unless there are
\* exactly three parts and int() takes each of them.
ParseCoords(coords) ==
    LET parts == Split(coords)
        ints  == [i \in 1..Len(parts) |-> PyInt(parts[i])]
    IN  IF Len(parts) = 3 /\ \A i \in 1..Len(parts) : ints[i].ok
        THEN [ok |-> TRUE, xyz |-> <<ints[1].value, ints[2].value, ints[3].value>>]
        ELSE [ok |-> FALSE, xyz |-> <<0, 0, 0>>]

\* ------------------------------------------------------------ the queries

\* SELECT DISTINCT term FROM ns.annotations_terms WHERE term ILIKE :term LIMIT 10
SearchTermRows(terms, term, order) ==
    LET M == {r.term : r \in {r \in terms : ILike(r.term, Pattern(term))}}
        q == InOrder(AscendingTerms(M), order)
    IN  SubSeq(q, 1, Min(Len(q), Limit))

\* SELECT study_id FROM ns.annotations_terms WHERE term LIKE :term
StudiesLike(terms, term) ==
    {r.study_id : r \in {r \in terms : Like(r.term, Pattern(term))}}

\* SELECT COUNT(DISTINCT study_id) ... WHERE term LIKE :term
TermCountRow(terms, term) == Cardinality(StudiesLike(terms, term))

\* SELECT COUNT(*) FROM (... LIKE :term_a INTERSECT ... LIKE :term_b)
IntersectionCountRow(terms, term_a, term_b) ==
    Cardinality(StudiesLike(terms, term_a) \cap StudiesLike(terms, term_b))

\* SELECT DISTINCT study_id ... WHERE term LIKE :term_a
\*   AND study_id NOT IN (SELECT study_id ... WHERE term LIKE :term_b)
DissociateTermsRows(terms, term_a, term_b, order) ==
    LET S == {r.study_id : r \in {r \in terms :
                  /\ Like(r.term, Pattern(term_a))
                  /\ r.study_id \notin StudiesLike(terms, term_b)}}
    IN  InOrder(AscendingIds(S), order)

\* The slip of a WHERE clause that leaves out the z coordinate.
StudiesAt_IgnoringZ(coords, xyz) ==
    {r.study_id : r \in {r \in coords : r.x = xyz[1] /\ r.y = xyz[2]}}

\* SELECT DISTINCT study_id FROM ns.coordinates
\*   WHERE ST_X(geom) = :x AND ST_Y(geom) = :y AND ST_Z(geom) = :z
StudiesAt(coords, xyz) ==
    {r.study_id : r \in {r \in coords : r.x = xyz[1] /\ r.y = xyz[2] /\ r.z = xyz[3]}}

\* The slip of listing the first set whole.
ListOfDifference_NoSubtraction(studies1, studies2, order) ==
    InOrder(AscendingIds(studies1), order)

\* list(studies1 - studies2)
ListOfDifference(studies1, studies2, order) ==
    InOrder(AscendingIds(studies1 \ studies2), order)

\* -------------------------------------------------------------- the state

VARIABLES
    annotations_terms,  \* the rows (study_id, term) of ns.annotations_terms
    coordinates,        \* the rows (study_id, x, y, z) of ns.coordinates
    DB_URL,             \* os.getenv("DB_URL")
    _engine,            \* the module's cached engine
    created,            \* how many engines create_engine has made
    resp,               \* the latest response, with the request it answers
    repeated,           \* the body the same request got just before, if it did
    pc,                 \* where each request thread stands (concurrent runs)
    frame               \* each request thread's locals (concurrent runs)

vars == <<annotations_terms, coordinates, DB_URL, _engine, created, resp, repeated, pc, frame>>

store == <<annotations_terms, coordinates>>

\* DB_URL unset (or empty): `not db_url` holds.
NoUrl == [scheme |-> "", rest |-> ""]

DbUrls == {[scheme |-> "postgres", rest |-> "db/ns"], [scheme |-> "postgresql", rest |-> "db/ns"]}

\* _engine = None
NoEngine == [id |-> 0, url |-> NoUrl]

\* if db_url.startswith("postgres://"): db_url = "postgresql://" + ...
NormalizeUrl(u) == IF u.scheme = "postgres" THEN [u EXCEPT !.scheme = "postgresql"] ELSE u

\* get_engine() run without interruption: the cached engine if there is one,
\* RuntimeError when DB_URL is missing, else a new engine, cached.
GetEngine(eng, url, n) ==
    IF eng # NoEngine THEN [raised |-> FALSE, engine |-> eng, created |-> n]
    ELSE IF url = NoUrl THEN [raised |-> TRUE, engine |-> eng, created |-> n]
    ELSE [raised |-> FALSE, engine |-> [id |-> n + 1, url |-> NormalizeUrl(url)], created |-> n + 1]

NoBody == [none |-> TRUE]

NoResponse == [op |-> "none", args |-> <<>>, order |-> "forward", status |-> 0,
               body |-> NoBody, queries |-> 0]

\* jsonify({"error": str(e)}), 500, and Flask's own 500 for an exception no
\* handler catches.
ErrorBody(msg) == [error |-> msg]

\* ------------------------------------------------------------- the inputs

StoredAlphabet == {"a", "b", " "}

StoredTerms == {<<"a">>, <<"b", "a">>, <<"a", " ", "b">>}

TermRows == {[study_id |-> s, term |-> t] : s \in Studies, t \in StoredTerms}

\* A vocabulary of twelve terms, each holding an "a".
VocabularyTerms == {<<"a", c>> : c \in StoredAlphabet}
                       \cup {<<c, "a", d>> : c \in StoredAlphabet, d \in StoredAlphabet}

VocabularyTable == {[study_id |-> 1, term |-> t] : t \in VocabularyTerms}

TermTables == {T \in SUBSET TermRows : Cardinality(T) <= MaxRows} \cup {VocabularyTable}

Points == {<<0, 0, 0>>, <<3, -5, 10>>}

CoordinateRows == {[study_id |-> s, x |-> p[1], y |-> p[2], z |-> p[3]] : s \in Studies, p \in Points}

CoordinateTables == {C \in SUBSET CoordinateRows : Cardinality(C) <= MaxRows}

\* What the store may hold: term annotations, coordinate annotations, or both.
Snapshots == {<<T, {}>> : T \in TermTables} \cup {<<{}, C>> : C \in CoordinateTables}
                 \cup {<<{r \in TermRows : r.term # <<"a", " ", "b">> /\ (r.study_id = 1 => r.term = <<"a">>)},
                         {r \in CoordinateRows : r.study_id = 1 => r.x = 0}>>}

QueryAlphabet == {"a", "A", "b", " ", "_", "%"}

Underscored(t) == [i \in 1..Len(t) |-> IF t[i] = " " THEN "_" ELSE t[i]]

\* The terms a client asks for: every single character, every stored term and
\* its underscore spelling.
Queries == {<<c>> : c \in QueryAlphabet} \cup StoredTerms \cup {Underscored(t) : t \in StoredTerms}

\* The coordinate literals a client sends: well-formed ones (of stored and of
\* unknown points, with a plus sign, with a blank) and malformed ones.
CoordLiterals == {
    <<"0", "_", "0", "_", "0">>,
    <<"3", "_", "-", "5", "_", "1", "0">>,
    <<" ", "+", "3", "_", "-", "5", "_", "1", "0">>,
    <<"0", "_", "0", "_", "1">>,
    <<"1", "_", "2">>,
    <<"0", "_", "0", "_", "0", "_", "0">>,
    <<"x", "_", "0", "_", "0">>,
    <<"0", "_", "_", "0">>,
    <<"3", ".", "0", "_", "-", "_", "0">>,
    <<>> }

\* ------------------------------------------ the handlers, one at a time

\* One request at a time: a request is taken when no response is waiting for
\* its client, or when it is the waiting response's own request, sent again.
\* The response is recorded with its request; `repeated` keeps the body the
\* same request got from the same data just before.
Reply(op, args, order, status, body, queries, g) ==
    /\ resp = NoResponse \/ (resp.op = op /\ resp.args = args)
    /\ resp' = [op |-> op, args |-> args, order |-> order, status |-> status,
                body |-> body, queries |-> queries]
    /\ repeated' = IF resp.op = op /\ resp.args = args /\ resp.status = 200 /\ status = 200
                   THEN resp.body ELSE NoBody
    /\ _engine' = g.engine
    /\ created' = g.created
    /\ UNCHANGED <<annotations_terms, coordinates, DB_URL, pc, frame>>

\* get_engine() was not called.
Untouched == [raised |-> FALSE, engine |-> _engine, created |-> created]

\* /search_term/<term>
search_term(term, order) ==
    LET g == GetEngine(_engine, DB_URL, created)
        matches == SearchTermRows(annotations_terms, term, order)
    IN  IF g.raised
        THEN Reply("search_term", <<term>>, order, 500, ErrorBody("Internal Server Error"), 0, g)
        ELSE Reply("search_term", <<term>>, order, 200,
                   [term |-> term, exists |-> Len(matches) > 0, matches |-> matches], 2, g)

\* /terms/<term>/count
term_count(term0) ==
    LET term == ReplaceUnderscores(term0)
        g == GetEngine(_engine, DB_URL, created)
    IN  IF g.raised
        THEN Reply("term_count", <<term0>>, "forward", 500, ErrorBody("Internal Server Error"), 0, g)
        ELSE Reply("term_count", <<term0>>, "forward", 200,
                   [term |-> term, study_count |-> TermCountRow(annotations_terms, term)], 2, g)

\* /terms/<term_a>/<term_b>/intersection_count
intersection_count(term_a0, term_b0) ==
    LET term_a == ReplaceUnderscores(term_a0)
        term_b == ReplaceUnderscores(term_b0)
        g == GetEngine(_engine, DB_URL, created)
    IN  IF g.raised
        THEN Reply("intersection_count", <<term_a0, term_b0>>, "forward", 500,
                   ErrorBody("Internal Server Error"), 0, g)
        ELSE Reply("intersection_count", <<term_a0, term_b0>>, "forward", 200,
                   [intersection_count |-> IntersectionCountRow(annotations_terms, term_a, term_b),
                    term_a |-> term_a, term_b |-> term_b], 2, g)

\* /dissociate/terms/<term_a>/<term_b>
dissociate_terms(term_a0, term_b0, order) ==
    LET term_a == ReplaceUnderscores(term_a0)
        term_b == ReplaceUnderscores(term_b0)
        g == GetEngine(_engine, DB_URL, created)
        studies == DissociateTermsRows(annotations_terms, term_a, term_b, order)
    IN  IF g.raised
        THEN Reply("dissociate_terms", <<term_a0, term_b0>>, order, 500, ErrorBody("Missing DB_URL"), 0, g)
        ELSE Reply("dissociate_terms", <<term_a0, term_b0>>, order, 200,
                   [study_count |-> Len(studies), dissociated_studies |-> studies], 2, g)

\* /dissociate/locations/<coords1>/<coords2>
dissociate_locations(coords1, coords2, order) ==
    LET c1 == ParseCoords(coords1)
        c2 == ParseCoords(coords2)
        g == GetEngine(_engine, DB_URL, created)
        studies1 == StudiesAt(coordinates, c1.xyz)
        studies2 == StudiesAt(coordinates, c2.xyz)
    IN  IF ~c1.ok \/ ~c2.ok
        THEN Reply("dissociate_locations", <<coords1, coords2>>, order, 500,
                   ErrorBody("ValueError"), 0, Untouched)
        ELSE IF g.raised
        THEN Reply("dissociate_locations", <<coords1, coords2>>, order, 500,
                   ErrorBody("Missing DB_URL"), 0, g)
        ELSE Reply("dissociate_locations", <<coords1, coords2>>, order, 200,
                   [a_to_b |-> ListOfDifference(studies1, studies2, order),
                    b_to_a |-> ListOfDifference(studies2, studies1, order)], 2, g)

\* /locations/<coords>/studies
get_studies_by_coordinates(coords) ==
    LET c == ParseCoords(coords)
    IN  IF ~c.ok
        THEN Reply("get_studies_by_coordinates", <<coords>>, "forward", 500,
                   ErrorBody("Internal Server Error"), 0, Untouched)
        ELSE Reply("get_studies_by_coordinates", <<coords>>, "forward", 200,
                   [xyz |-> c.xyz], 0, Untouched)

\* ------------------------------------------------------- the environment

\* The deployment sets or clears DB_URL, between two requests.
SetDbUrl(u) ==
    /\ resp = NoResponse
    /\ DB_URL # u
    /\ DB_URL' = u
    /\ UNCHANGED <<annotations_terms, coordinates, _engine, created, resp, repeated, pc, frame>>

\* The store's owner replaces the annotation data, between two requests of the
\* one-at-a-time server and at any moment of the concurrent one; a transaction
\* that has read once and not yet twice is marked.
ReplaceStore(snapshot) ==
    /\ resp = NoResponse
    /\ snapshot # store
    /\ annotations_terms' = snapshot[1]
    /\ coordinates' = snapshot[2]
    /\ frame' = [t \in Threads |->
                     IF pc[t] = "query2" THEN [frame[t] EXCEPT !.replaced = TRUE] ELSE frame[t]]
    /\ UNCHANGED <<DB_URL, _engine, created, resp, repeated, pc>>

\* The client takes the waiting response.
Deliver ==
    /\ resp # NoResponse
    /\ resp' = NoResponse
    /\ repeated' = NoBody
    /\ UNCHANGED <<annotations_terms, coordinates, DB_URL, _engine, created, pc, frame>>

Idle == [t \in Threads |-> "idle"]

\* A request thread's locals: the parsed coordinates, get_engine's db_url, the
\* engine create_engine made and the one get_engine returned, the two study
\* sets, and whether the store was replaced between the two reads.
NoFrame == [xyz1 |-> <<0, 0, 0>>, xyz2 |-> <<0, 0, 0>>,
            db_url |-> NoUrl, made |-> NoEngine, eng |-> NoEngine,
            studies1 |-> {}, studies2 |-> {}, replaced |-> FALSE]

Init ==
    /\ \E snapshot \in Snapshots :
           /\ annotations_terms = snapshot[1]
           /\ coordinates = snapshot[2]
    /\ DB_URL \in DbUrls \cup {NoUrl}
    /\ _engine = NoEngine
    /\ created = 0
    /\ resp = NoResponse
    /\ repeated = NoBody
    /\ pc = Idle
    /\ frame = [t \in Threads |-> NoFrame]

\* A client sends a request.
NewRequest ==
    /\ resp = NoResponse
    /\ \/ \E term \in Queries, order \in ScanOrders : search_term(term, order)
       \/ \E term \in Queries : term_count(term)
       \/ \E term_a \in Queries, term_b \in Queries : intersection_count(term_a, term_b)
       \/ \E term_a \in Queries, term_b \in Queries, order \in ScanOrders :
              dissociate_terms(term_a, term_b, order)
       \/ \E coords1 \in CoordLiterals, coords2 \in CoordLiterals, order \in ScanOrders :
              dissociate_locations(coords1, coords2, order)
       \/ \E coords \in CoordLiterals : get_studies_by_coordinates(coords)

\* The client sends the request of the waiting response again.
SameRequest ==
    \/ resp.op = "search_term" /\ \E order \in ScanOrders : search_term(resp.args[1], order)
    \/ resp.op = "term_count" /\ term_count(resp.args[1])
    \/ resp.op = "intersection_count" /\ intersection_count(resp.args[1], resp.args[2])
    \/ resp.op = "dissociate_terms"
           /\ \E order \in ScanOrders : dissociate_terms(resp.args[1], resp.args[2], order)
    \/ resp.op = "dissociate_locations"
           /\ \E order \in ScanOrders : dissociate_locations(resp.args[1], resp.args[2], order)
    \/ resp.op = "get_studies_by_coordinates" /\ get_studies_by_coordinates(resp.args[1])

Next ==
    \/ NewRequest
    \/ SameRequest
    \/ Deliver
    \/ \E u \in DbUrls \cup {NoUrl} : SetDbUrl(u)
    \/ \E snapshot \in Snapshots : ReplaceStore(snapshot)

\* The server answering one request at a time.
Spec == Init /\ [][Next]_vars

\* ------------------------------- get_engine(), one bytecode step at a time

\* Several threads of the WSGI server call get_engine() at once; nothing
\* orders their steps.
Step(t, to, locals) ==
    /\ pc' = [pc EXCEPT ![t] = to]
    /\ frame' = [frame EXCEPT ![t] = locals]

CallGetEngine(t) ==
    /\ pc[t] = "idle"
    /\ Step(t, "check", NoFrame)
    /\ UNCHANGED <<annotations_terms, coordinates, DB_URL, _engine, created, resp, repeated>>

\* if _engine is not None: return _engine
CheckCached(t) ==
    /\ pc[t] = "check"
    /\ IF _engine # NoEngine
       THEN Step(t, "returned", [frame[t] EXCEPT !.eng = _engine])
       ELSE Step(t, "getenv", frame[t])
    /\ UNCHANGED <<annotations_terms, coordinates, DB_URL, _engine, created, resp, repeated>>

\* db_url = os.getenv("DB_URL"); raise RuntimeError if it is missing; normalise
\* the scheme.
ReadDbUrl(t) ==
    /\ pc[t] = "getenv"
    /\ IF DB_URL = NoUrl
       THEN Step(t, "raised", frame[t])
       ELSE Step(t, "create", [frame[t] EXCEPT !.db_url = NormalizeUrl(DB_URL)])
    /\ UNCHANGED <<annotations_terms, coordinates, DB_URL, _engine, created, resp, repeated>>

\* create_engine(db_url, pool_pre_ping=True)
CreateEngine(t) ==
    /\ pc[t] = "create"
    /\ created' = created + 1
    /\ Step(t, "store", [frame[t] EXCEPT !.made = [id |-> created + 1, url |-> frame[t].db_url]])
    /\ UNCHANGED <<annotations_terms, coordinates, DB_URL, _engine, resp, repeated>>

\* _engine = <the engine made>
StoreEngine(t) ==
    /\ pc[t] = "store"
    /\ _engine' = frame[t].made
    /\ Step(t, "return", frame[t])
    /\ UNCHANGED <<annotations_terms, coordinates, DB_URL, created, resp, repeated>>

\* return _engine
ReturnEngine(t) ==
    /\ pc[t] = "return"
    /\ Step(t, "returned", [frame[t] EXCEPT !.eng = _engine])
    /\ UNCHANGED <<annotations_terms, coordinates, DB_URL, _engine, created, resp, repeated>>

\* The caller goes on with what get_engine() returned or raised.
Finish(t) ==
    /\ pc[t] \in {"returned", "raised", "respond"}
    /\ Step(t, "idle", NoFrame)
    /\ UNCHANGED <<annotations_terms, coordinates, DB_URL, _engine, created, resp, repeated>>

InitEngine ==
    /\ annotations_terms = {}
    /\ coordinates = {}
    /\ DB_URL \in DbUrls \cup {NoUrl}
    /\ _engine = NoEngine
    /\ created = 0
    /\ resp = NoResponse
    /\ repeated = NoBody
    /\ pc = Idle
    /\ frame = [t \in Threads |-> NoFrame]

NextEngine ==
    \/ \E t \in Threads : CallGetEngine(t)
    \/ \E t \in Threads : CheckCached(t)
    \/ \E t \in Threads : ReadDbUrl(t)
    \/ \E t \in Threads : CreateEngine(t)
    \/ \E t \in Threads : StoreEngine(t)
    \/ \E t \in Threads : ReturnEngine(t)
    \/ \E t \in Threads : Finish(t)
    \/ \E u \in DbUrls \cup {NoUrl} : SetDbUrl(u)

\* Concurrent calls of get_engine().
SpecEngine == InitEngine /\ [][NextEngine]_vars

\* ------------------- dissociate_locations while the store is being replaced

\* The literals the concurrent requests carry.
ConcurrentLiterals == {<<"0", "_", "0", "_", "0">>, <<"3", "_", "-", "5", "_", "1", "0">>,
                       <<"1", "_", "2">>}

\* Lines 96-102: parse both literals, get the engine, begin the transaction.
BeginDissociate(t, coords1, coords2) ==
    LET c1 == ParseCoords(coords1)
        c2 == ParseCoords(coords2)
        g == GetEngine(_engine, DB_URL, created)
    IN  /\ pc[t] = "idle"
        /\ IF ~c1.ok \/ ~c2.ok
           THEN Step(t, "raised", NoFrame) /\ UNCHANGED <<_engine, created>>
           ELSE /\ _engine' = g.engine
                /\ created' = g.created
                /\ IF g.raised
                   THEN Step(t, "raised", NoFrame)
                   ELSE Step(t, "query1", [NoFrame EXCEPT !.xyz1 = c1.xyz, !.xyz2 = c2.xyz,
                                                          !.eng = g.engine])
        /\ UNCHANGED <<annotations_terms, coordinates, DB_URL, resp, repeated>>

\* Lines 104-109: the first SELECT.  The engine is made without an isolation
\* level, so the transaction runs at PostgreSQL's default, READ COMMITTED:
\* each statement reads the data committed when it starts.
Query1(t) ==
    /\ pc[t] = "query1"
    /\ Step(t, "query2", [frame[t] EXCEPT !.studies1 = StudiesAt(coordinates, frame[t].xyz1)])
    /\ UNCHANGED <<annotations_terms, coordinates, DB_URL, _engine, created, resp, repeated>>

\* Lines 111-117: the second SELECT.
Query2(t) ==
    /\ pc[t] = "query2"
    /\ Step(t, "respond", [frame[t] EXCEPT !.studies2 = StudiesAt(coordinates, frame[t].xyz2)])
    /\ UNCHANGED <<annotations_terms, coordinates, DB_URL, _engine, created, resp, repeated>>

InitConcurrent ==
    /\ annotations_terms = {}
    /\ coordinates \in CoordinateTables
    /\ DB_URL \in DbUrls \cup {NoUrl}
    /\ _engine = NoEngine
    /\ created = 0
    /\ resp = NoResponse
    /\ repeated = NoBody
    /\ pc = Idle
    /\ frame = [t \in Threads |-> NoFrame]

NextConcurrent ==
    \/ \E t \in Threads, coords1 \in ConcurrentLiterals, coords2 \in ConcurrentLiterals :
           BeginDissociate(t, coords1, coords2)
    \/ \E t \in Threads : Query1(t)
    \/ \E t \in Threads : Query2(t)
    \/ \E t \in Threads : Finish(t)
    \/ \E C \in CoordinateTables : ReplaceStore(<<annotations_terms, C>>)

\* Requests in several threads, and the store replaced while they run.
SpecConcurrent == InitConcurrent /\ [][NextConcurrent]_vars

\* ------------------------------------------- the words of the claims

\* t occurs in s as a run of consecutive characters.
Contains(s, t) == \E i \in 0..(Len(s) - Len(t)) : SubSeq(s, i + 1, i + Len(t)) = t

\* ... letter case ignored.
ContainsIgnoringCase(s, t) == Contains(LowerSeq(s), LowerSeq(t))

\* The studies carrying at least one term that contains the query (its
\* underscores read as blanks) as a case-insensitive substring.
StudiesMatchingSubstring(terms, t) ==
    {s \in Studies : \E r \in terms :
        r.study_id = s /\ ContainsIgnoringCase(r.term, ReplaceUnderscores(t))}

\* The studies reporting exactly the point p.
StudiesReporting(coords, p) ==
    {s \in Studies : [study_id |-> s, x |-> p[1], y |-> p[2], z |-> p[3]] \in coords}

\* LIKE reads % (and, where the underscores are not replaced, _) as a wildcard.
HasWildcard(t) == \E i \in 1..Len(t) : t[i] \in {"%", "_"}

NoDuplicates(q) == Cardinality(Range(q)) = Len(q)

Answered(op) == resp.op = op /\ resp.status = 200

\* An integer numeral: blanks, an optional sign, one or more decimal digits, blanks.
IsNumeral(part) ==
    \E lo \in 1..Len(part) : \E hi \in lo..Len(part) :
        /\ \A i \in 1..Len(part) : (i < lo \/ i > hi) => part[i] = " "
        /\ \/ \A i \in lo..hi : part[i] \in Digits
           \/ part[lo] \in {"+", "-"} /\ lo < hi /\ \A i \in (lo + 1)..hi : part[i] \in Digits

\* Exactly three integer numerals with an underscore between them.
IsCoordinateLiteral(c) ==
    \E i \in 1..Len(c) : \E j \in (i + 1)..Len(c) :
        /\ \A k \in 1..Len(c) : c[k] = "_" <=> k \in {i, j}
        /\ IsNumeral(SubSeq(c, 1, i - 1))
        /\ IsNumeral(SubSeq(c, i + 1, j - 1))
        /\ IsNumeral(SubSeq(c, j + 1, Len(c)))

\* ------------------------------------------------------------- the claims

\* C1: term_count's study_count is the number of distinct studies carrying a
\* term that contains the query as a case-insensitive substring.  Stated for
\* the queries that hold no % (on those LIKE is plain substring matching).
C1_TermCountIgnoresCase ==
    (Answered("term_count") /\ ~HasWildcard(ReplaceUnderscores(resp.args[1])))
        => resp.body.study_count =
               Cardinality(StudiesMatchingSubstring(annotations_terms, resp.args[1]))

\* C2: every term-taking operation answers the underscore spelling of a term
\* as it answers the spelling with blanks (under the same row order).
C2_UnderscoreReadAsBlank ==
    /\ Answered("search_term") =>
           resp.body.matches =
               SearchTermRows(annotations_terms, ReplaceUnderscores(resp.args[1]), resp.order)
    /\ Answered("term_count") =>
           resp.body.study_count =
               TermCountRow(annotations_terms, ReplaceUnderscores(resp.args[1]))
    /\ Answered("intersection_count") =>
           resp.body.intersection_count =
               IntersectionCountRow(annotations_terms, ReplaceUnderscores(resp.args[1]),
                                    ReplaceUnderscores(resp.args[2]))
    /\ Answered("dissociate_terms") =>
           resp.body.dissociated_studies =
               DissociateTermsRows(annotations_terms, ReplaceUnderscores(resp.args[1]),
                                   ReplaceUnderscores(resp.args[2]), resp.order)

\* C3: dissociate_terms(a, b) lists exactly the studies matching a and not b,
\* none of them matching b, none twice, and study_count is their number.
\* Stated for the terms that hold no % (on those LIKE is plain substring matching).
C3_DissociateTermsIsDifference ==
    (/\ Answered("dissociate_terms")
     /\ ~HasWildcard(ReplaceUnderscores(resp.args[1]))
     /\ ~HasWildcard(ReplaceUnderscores(resp.args[2])))
        => LET A == StudiesMatchingSubstring(annotations_terms, resp.args[1])
               B == StudiesMatchingSubstring(annotations_terms, resp.args[2])
           IN  /\ Range(resp.body.dissociated_studies) = A \ B
               /\ Range(resp.body.dissociated_studies) \cap B = {}
               /\ NoDuplicates(resp.body.dissociated_studies)
               /\ resp.body.study_count = Cardinality(A \ B)

\* C4: dissociate_locations(c1, c2) answers a_to_b = studiesAt(c1) \ studiesAt(c2)
\* and b_to_a = studiesAt(c2) \ studiesAt(c1); the two are disjoint and hold no
\* study that reports both coordinates.
C4_DissociateLocationsIsDifference ==
    Answered("dissociate_locations")
        => LET A == StudiesReporting(coordinates, ParseCoords(resp.args[1]).xyz)
               B == StudiesReporting(coordinates, ParseCoords(resp.args[2]).xyz)
           IN  /\ Range(resp.body.a_to_b) = A \ B
               /\ Range(resp.body.b_to_a) = B \ A
               /\ Range(resp.body.a_to_b) \cap Range(resp.body.b_to_a) = {}
               /\ (Range(resp.body.a_to_b) \cup Range(resp.body.b_to_a)) \cap (A \cap B) = {}

\* The store of scenario B, asked for its two points: a_to_b is [1], b_to_a is [].
C4_Witness ==
    /\ Answered("dissociate_locations")
    /\ coordinates = {r \in CoordinateRows : r.study_id = 1 => r.x = 0}
    /\ resp.args = << <<"0", "_", "0", "_", "0">>, <<"3", "_", "-", "5", "_", "1", "0">> >>
    /\ resp.body.a_to_b = <<1>>
    /\ resp.body.b_to_a = <<>>

\* The literal of the request was malformed and the handler said so.
Malformed(c) == ~IsCoordinateLiteral(c)

RejectedLiteral ==
    \/ /\ resp.op = "get_studies_by_coordinates"
       /\ Malformed(resp.args[1])
    \/ /\ resp.op = "dissociate_locations"
       /\ Malformed(resp.args[1]) \/ Malformed(resp.args[2])

\* C5: a coordinate literal is taken iff it splits on underscores into exactly
\* three integers ("3_-5_10" is (3, -5, 10)); any other literal is answered with
\* an error, in both coordinate operations, before any query is sent to the
\* store, and the step changes neither the engine nor the store.
C5_MalformedLiteralRejected ==
    /\ [](/\ resp.op = "get_studies_by_coordinates" =>
                /\ resp.status = 200 <=> IsCoordinateLiteral(resp.args[1])
                /\ resp.status = 500 <=> Malformed(resp.args[1])
                /\ resp.args[1] = <<"3", "_", "-", "5", "_", "1", "0">> =>
                       resp.body = [xyz |-> <<3, -5, 10>>]
          /\ resp.op = "dissociate_locations" =>
                /\ resp.body = ErrorBody("ValueError") <=>
                       (Malformed(resp.args[1]) \/ Malformed(resp.args[2]))
                /\ resp.body = ErrorBody("ValueError") => resp.status = 500
          /\ RejectedLiteral => resp.queries = 0)
    /\ [][RejectedLiteral' => UNCHANGED <<annotations_terms, coordinates, DB_URL, _engine, created>>]_vars

\* "1_2" is refused while an engine could have been made and none was.
C5_Witness ==
    /\ resp.op = "dissociate_locations"
    /\ resp.args[1] = <<"1", "_", "2">>
    /\ IsCoordinateLiteral(resp.args[2])
    /\ resp.body = ErrorBody("ValueError")
    /\ DB_URL # NoUrl
    /\ _engine = NoEngine

\* C6: search_term's matches are at most 10 terms, all distinct, each
\* containing the query (as sent, or with its underscores read as blanks) as a
\* case-insensitive substring; exists is true iff some stored term matches,
\* iff matches is not empty.
C6_SearchTermMatchesContainQuery ==
    Answered("search_term")
        => LET Matching(t) == \/ ContainsIgnoringCase(t, resp.args[1])
                              \/ ContainsIgnoringCase(t, ReplaceUnderscores(resp.args[1]))
           IN  /\ Len(resp.body.matches) <= 10
               /\ NoDuplicates(resp.body.matches)
               /\ \A i \in 1..Len(resp.body.matches) : Matching(resp.body.matches[i])
               /\ resp.body.exists <=> \E r \in annotations_terms : Matching(r.term)
               /\ resp.body.exists <=> resp.body.matches # <<>>

\* C7: a request sent again against the same data gets the same result, the
\* terms of a capped matches list and the order of every list included.  Stated
\* for its least demanding part: search_term sent again returns the same terms,
\* in whatever order.
C7_RepeatedSearchSameTerms ==
    (repeated # NoBody /\ resp.op = "search_term")
        => Range(resp.body.matches) = Range(repeated.matches)

\* No stored row is selected by the request's own condition.
NothingMatches ==
    CASE resp.op = "search_term" ->
             \A r \in annotations_terms : ~ILike(r.term, Pattern(resp.args[1]))
      [] resp.op = "term_count" ->
             \A r \in annotations_terms : ~Like(r.term, Pattern(ReplaceUnderscores(resp.args[1])))
      [] resp.op = "intersection_count" ->
             \A s \in Studies :
                 ~ /\ \E r \in annotations_terms :
                          r.study_id = s /\ Like(r.term, Pattern(ReplaceUnderscores(resp.args[1])))
                   /\ \E r \in annotations_terms :
                          r.study_id = s /\ Like(r.term, Pattern(ReplaceUnderscores(resp.args[2])))
      [] resp.op = "dissociate_terms" ->
             \A r \in annotations_terms : ~Like(r.term, Pattern(ReplaceUnderscores(resp.args[1])))
      [] resp.op = "dissociate_locations" ->
             /\ IsCoordinateLiteral(resp.args[1])
             /\ IsCoordinateLiteral(resp.args[2])
             /\ \A r \in coordinates :
                    /\ <<r.x, r.y, r.z>> # ParseCoords(resp.args[1]).xyz
                    /\ <<r.x, r.y, r.z>> # ParseCoords(resp.args[2]).xyz
      [] OTHER -> FALSE

EmptyPayload ==
    CASE resp.op = "search_term" -> resp.body.exists = FALSE /\ resp.body.matches = <<>>
      [] resp.op = "term_count" -> resp.body.study_count = 0
      [] resp.op = "intersection_count" -> resp.body.intersection_count = 0
      [] resp.op = "dissociate_terms" ->
             resp.body.study_count = 0 /\ resp.body.dissociated_studies = <<>>
      [] resp.op = "dissociate_locations" ->
             resp.body.a_to_b = <<>> /\ resp.body.b_to_a = <<>>
      [] OTHER -> FALSE

Answer(t) == [a_to_b |-> frame[t].studies1 \ frame[t].studies2,
              b_to_a |-> frame[t].studies2 \ frame[t].studies1]

\* C9: whatever the interleaving with a replacement of the data, a
\* dissociate_locations request computes its answer from one version of the
\* data: its two study sets were read with no replacement between them (or, at
\* the very least, the answer is one that some single table gives).
C9_AnswerFromOneVersion ==
    \A t \in Threads : pc[t] = "respond" =>
        \/ ~frame[t].replaced
        \/ \E D \in CoordinateTables :
               Answer(t) = [a_to_b |-> StudiesReporting(D, frame[t].xyz1)
                                           \ StudiesReporting(D, frame[t].xyz2),
                            b_to_a |-> StudiesReporting(D, frame[t].xyz2)
                                           \ StudiesReporting(D, frame[t].xyz1)]

\* C10: whatever the interleaving of get_engine() calls, at most one engine is
\* ever created and every call that returns returns that engine; a call that
\* raises (DB_URL unset) returns none.
C10_OneEngineEver ==
    /\ created <= 1
    /\ \A t \in Threads : pc[t] = "returned" => frame[t].eng = _engine
    /\ \A t \in Threads : pc[t] = "raised" => frame[t].eng = NoEngine

====
